---- MODULE Spec2Model ----
(***************************************************************************)
(* Model of the wallet manager's seed store (blockchain-wallet/src/app.rs):*)
(* the App state, the main loop of App::run, the polling refresh           *)
(* App::check_for_updates, the generate request App::press_button, and the *)
(* hex record codec and line scanner of App::load_wallets_from_file.       *)
(*                                                                         *)
(* Text is a sequence of one-character strings.  The keys file is its raw  *)
(* character content plus its modification timestamp.  The codec is        *)
(* modelled digit by digit; every definition is parametric in the seed     *)
(* width SEED_LEN, which the model explores at a narrower value than the   *)
(* program's 32 bytes.                                                     *)
(***************************************************************************)
EXTENDS Integers, Sequences, FiniteSets, TLC

VARIABLES
    pc,             \* position of App::run: "start", "check", "render", "poll", "done", "failed"
    running,        \* App.running
    button_pressed, \* App.button_pressed
    seeds,          \* App.seeds
    last_check,     \* App.last_check: None, or Some(age in ms of the recorded Instant, saturated)
    last_modified,  \* App.last_modified: None, or Some(timestamp)
    keys_file,      \* the file at keys_path: [exists, content, modified]
    rendered,       \* the wallet lines drawn by the last App::render
    last,           \* history: what the last step did
    generated,      \* history: seeds whose record this process appended completely
    pristine,       \* history: the file started absent or empty and only complete local appends touched it
    ever_recorded,  \* history: seeds that some line of the file has ever decoded to
    refresh_reads,  \* history: loads done by check_for_updates since the file was last modified
    faults,         \* history: generate requests that met a failing entropy source or a failing save
    peer            \* a second instance of the program on the same file: [pc, seeds,
                    \* last_modified, generated, pending]; pc is "off" until it is started

vars == <<pc, running, button_pressed, seeds, last_check, last_modified, keys_file,
          rendered, last, generated, pristine, ever_recorded, refresh_reads, faults,
          peer>>

----------------------------------------------------------------------------
(* Bounds of the model *)

\* number of file modifications (local appends and external edits) explored
MaxWrites == 2
\* number of distinct values the entropy source can deliver
NumSeeds == 2
\* number of generate requests that meet a failing entropy source or a failing save
MaxFaults == 1

\* number of texts in the files the loader specification starts on
MaxFileLines == 3
\* width of a seed in bytes: [u8; 32] in the program, narrower here; a record is
\* 2 * SEED_LEN hex digits
SEED_LEN == 4

(* Program constants *)

\* Duration::from_millis(100) in check_for_updates
CHECK_INTERVAL_MS == 100
\* Duration::from_millis(100) in event::poll
POLL_TIMEOUT_MS == 100

----------------------------------------------------------------------------
(* Option<T> *)

None == [some |-> FALSE, val |-> 0]
Some(x) == [some |-> TRUE, val |-> x]

Min(a, b) == IF a < b THEN a ELSE b

Range(s) == {s[i] : i \in 1..Len(s)}

----------------------------------------------------------------------------
(* The hex crate: hex::encode and hex::decode *)

HexLower == <<"0", "1", "2", "3", "4", "5", "6", "7", "8", "9", "a", "b", "c", "d", "e", "f">>
HexUpper == <<"0", "1", "2", "3", "4", "5", "6", "7", "8", "9", "A", "B", "C", "D", "E", "F">>

\* the characters that occur in the texts of this model
Chars == Range(HexLower) \cup Range(HexUpper) \cup {" ", "\t", "\r", "\n", "z"}

\* value of one hex digit, either case; -1 for any other character
HexTable ==
    [c \in Chars |->
        IF \E i \in 1..16 : HexLower[i] = c
        THEN (CHOOSE i \in 1..16 : HexLower[i] = c) - 1
        ELSE IF \E i \in 1..16 : HexUpper[i] = c
        THEN (CHOOSE i \in 1..16 : HexUpper[i] = c) - 1
        ELSE -1]

HexVal(c) == HexTable[c]

\* an encoder that writes the low nibble first
hex_encode_swapped(bytes) ==
    [i \in 1..(2 * Len(bytes)) |->
        LET b == bytes[(i + 1) \div 2]
        IN  IF i % 2 = 1 THEN HexLower[(b % 16) + 1] ELSE HexLower[(b \div 16) + 1]]

\* hex::encode: two lowercase digits per byte, high nibble first
hex_encode(bytes) ==
    [i \in 1..(2 * Len(bytes)) |->
        LET b == bytes[(i + 1) \div 2]
        IN  IF i % 2 = 1 THEN HexLower[(b \div 16) + 1] ELSE HexLower[(b % 16) + 1]]

\* hex::decode: Err(OddLength), Err(InvalidHexCharacter) or the bytes
hex_decode(text) ==
    IF Len(text) % 2 = 1
    THEN [ok |-> FALSE, bytes |-> <<>>, err |-> "OddLength"]
    ELSE IF \E i \in 1..Len(text) : HexVal(text[i]) = -1
    THEN [ok |-> FALSE, bytes |-> <<>>, err |-> "InvalidHexCharacter"]
    ELSE [ok |-> TRUE,
          bytes |-> [i \in 1..(Len(text) \div 2) |->
                        HexVal(text[2 * i - 1]) * 16 + HexVal(text[2 * i])],
          err |-> "none"]

----------------------------------------------------------------------------
(* str::trim and BufRead::lines *)

IsWhitespace(c) == c \in {" ", "\t", "\r", "\n"}

RECURSIVE TrimStart(_)
TrimStart(text) ==
    IF text # <<>> /\ IsWhitespace(Head(text)) THEN TrimStart(Tail(text)) ELSE text

RECURSIVE TrimEnd(_)
TrimEnd(text) ==
    IF text # <<>> /\ IsWhitespace(text[Len(text)])
    THEN TrimEnd(SubSeq(text, 1, Len(text) - 1))
    ELSE text

\* str::trim
trim(text) == TrimEnd(TrimStart(text))

\* one line as BufRead::lines yields it: the "\n" is dropped, and a "\r" before it
StripLineEnd(raw, terminated) ==
    IF terminated /\ raw # <<>> /\ raw[Len(raw)] = "\r"
    THEN SubSeq(raw, 1, Len(raw) - 1)
    ELSE raw

\* BufRead::lines over the whole content; an unterminated last line is yielded as it is
RECURSIVE lines(_)
lines(content) ==
    IF content = <<>> THEN <<>>
    ELSE LET nl == {i \in 1..Len(content) : content[i] = "\n"}
         IN  IF nl = {}
             THEN <<StripLineEnd(content, FALSE)>>
             ELSE LET k == CHOOSE i \in nl : \A j \in nl : i <= j
                  IN  <<StripLineEnd(SubSeq(content, 1, k - 1), TRUE)>>
                      \o lines(SubSeq(content, k + 1, Len(content)))

----------------------------------------------------------------------------
(* Entropy source: OsRng.try_fill_bytes *)

\* a 32-byte value standing for the k-th output of the entropy source
SeedFrom(k) == [i \in 1..SEED_LEN |-> (k * 37 + i * 11) % 256]

\* let mut seed = [0u8; 32]
ZeroSeed == [i \in 1..SEED_LEN |-> 0]

\* what one call of try_fill_bytes can do: fill the whole buffer and return Ok, or
\* return Err having filled nothing or only a leading part of the buffer
EntropyOutcomes ==
    {[ok |-> TRUE, filled |-> SEED_LEN, bytes |-> SeedFrom(k)] : k \in 1..NumSeeds}
    \cup {[ok |-> FALSE, filled |-> n, bytes |-> SeedFrom(1)] : n \in {0, SEED_LEN \div 2}}

\* App::generate_random_wallet: the Result of try_fill_bytes is discarded (let _ =),
\* the seed is whatever the buffer holds afterwards
generate_random_wallet(entropy) ==
    [i \in 1..SEED_LEN |-> IF i <= entropy.filled THEN entropy.bytes[i] ELSE 0]

\* Key derivation and address encoding (sp_core, outside the repository):
\* a deterministic function of the seed, kept symbolic
derive(seed) == [ss58_of |-> seed]

----------------------------------------------------------------------------
(* The keys file *)

\* the modification timestamp after a write; the model takes every write to
\* move it (writes within one tick of the file system's clock are not explored)
Touch(file) == file.modified + 1

\* one record as writeln! emits it
RecordText(seed) == hex_encode(seed) \o <<"\n">>

\* faults of one save: none, the open fails, or a write fails after `written`
\* characters of the record reached the file (half of the digits, or all the
\* digits but not the line end)
SaveFaults ==
    {[kind |-> "none", written |-> 2 * SEED_LEN + 1], [kind |-> "open", written |-> 0]}
    \cup {[kind |-> "write", written |-> n] : n \in {SEED_LEN, 2 * SEED_LEN}}

\* a save that opens the file with truncate instead of append
save_wallet_to_file_truncating(file, seed, fault) ==
    IF fault.kind = "open"
    THEN [ok |-> FALSE, file |-> file]
    ELSE [ok |-> fault.kind = "none",
          file |-> [exists |-> TRUE,
                    content |-> SubSeq(RecordText(seed), 1, fault.written),
                    modified |-> Touch(file)]]

\* App::save_wallet_to_file: OpenOptions append+create, writeln!(file, "{}", hex)
save_wallet_to_file(file, seed, fault) ==
    IF fault.kind = "open"
    THEN [ok |-> FALSE, file |-> file]
    ELSE LET text == SubSeq(RecordText(seed), 1, fault.written)
             changed == ~file.exists \/ text # <<>>
         IN  [ok |-> fault.kind = "none",
              file |-> [exists |-> TRUE,
                        content |-> (IF file.exists THEN file.content ELSE <<>>) \o text,
                        modified |-> IF changed THEN Touch(file) ELSE file.modified]]

\* a blank test that forgets to trim
is_blank_untrimmed(line) == line = <<>>

\* line.trim().is_empty()
is_blank(line) == trim(line) = <<>>

\* the for loop of App::load_wallets_from_file over the remaining lines
RECURSIVE load_scan(_, _)
load_scan(ls, acc) ==
    IF ls = <<>> THEN [ok |-> TRUE, seeds |-> acc, err |-> "none"]
    ELSE LET line == Head(ls)
         IN  IF is_blank(line) THEN load_scan(Tail(ls), acc)
             ELSE LET d == hex_decode(line)
                  IN  IF ~d.ok THEN [ok |-> FALSE, seeds |-> <<>>, err |-> "InvalidData"]
                      ELSE IF Len(d.bytes) # SEED_LEN
                      THEN [ok |-> FALSE, seeds |-> <<>>, err |-> "InvalidData"]
                      ELSE load_scan(Tail(ls), Append(acc, d.bytes))

\* a load that treats a missing file as an open error
load_wallets_from_file_strict(file, io_ok) ==
    IF ~file.exists \/ ~io_ok THEN [ok |-> FALSE, seeds |-> <<>>, err |-> "Io"]
    ELSE load_scan(lines(file.content), <<>>)

\* App::load_wallets_from_file; io_ok is whether File::open and the reads succeed
load_wallets_from_file(file, io_ok) ==
    IF ~file.exists THEN [ok |-> TRUE, seeds |-> <<>>, err |-> "none"]
    ELSE IF ~io_ok THEN [ok |-> FALSE, seeds |-> <<>>, err |-> "Io"]
    ELSE load_scan(lines(file.content), <<>>)

\* the file can be loaded: it is absent, or each of its non-blank lines decodes to a seed
Decodable(file) == load_wallets_from_file(file, TRUE).ok

\* a load_seeds that clears the list when the load fails
load_seeds_reset(cur, res) == IF res.ok THEN res.seeds ELSE <<>>

\* a load_seeds that merges the loaded seeds into the list
load_seeds_merge(cur, res) == IF res.ok THEN cur \o res.seeds ELSE cur

\* App::load_seeds: the new value of self.seeds
load_seeds(cur, res) == IF res.ok THEN res.seeds ELSE cur

\* seeds that some line of the file decodes to
RecordedSeeds(file) ==
    IF ~file.exists THEN {}
    ELSE LET decoded == {hex_decode(l) : l \in Range(lines(file.content))}
         IN  {d.bytes : d \in {x \in decoded : x.ok /\ Len(x.bytes) = SEED_LEN}}

----------------------------------------------------------------------------
(* Time: last_check holds the age of the recorded Instant *)

Advance(lc, d) == IF lc.some THEN Some(Min(lc.val + d, CHECK_INTERVAL_MS)) ELSE None

\* the early return of check_for_updates is not taken
is_due(lc) == ~lc.some \/ ~(lc.val < CHECK_INTERVAL_MS)

\* a comparison that always asks for a reload
needs_reload_always(lm, modified_time) == TRUE

\* a comparison that asks for a reload only while no watermark is recorded
needs_reload_once(lm, modified_time) == ~lm.some

\* self.last_modified.is_none() || self.last_modified != Some(modified_time)
needs_reload(lm, modified_time) == ~lm.some \/ lm # Some(modified_time)

----------------------------------------------------------------------------
(* Other writers of the file *)

\* the seed an external writer records
ExternalSeed == SeedFrom(0)

\* texts an external writer appends while the program runs: a record, a line
\* that is not hex, and a record one byte short
ExternalTexts ==
    { RecordText(ExternalSeed),
      <<"z", "z", "\n">>,
      SubSeq(hex_encode(ExternalSeed), 1, 2 * SEED_LEN - 2) \o <<"\n">> }

NoFile == [exists |-> FALSE, content |-> <<>>, modified |-> 0]

InitialFiles ==
    { NoFile,
      [exists |-> TRUE, content |-> <<>>, modified |-> 0],
      [exists |-> TRUE, content |-> RecordText(ExternalSeed), modified |-> 0],
      [exists |-> TRUE, content |-> <<"z", "z", "\n">>, modified |-> 0] }

----------------------------------------------------------------------------
(* History records *)

Did(op, result, entropy, append) ==
    [op |-> op, result |-> result, entropy |-> entropy, append |-> append]

\* bookkeeping shared by every step that may modify the file
FileHistory(file2) ==
    /\ ever_recorded' = ever_recorded \cup RecordedSeeds(file2)
    /\ refresh_reads' = IF file2 = keys_file THEN refresh_reads ELSE 0

\* the second instance before it is started
PeerOff ==
    [pc |-> "off", seeds |-> <<>>, last_modified |-> None, generated |-> <<>>,
     pending |-> FALSE]

----------------------------------------------------------------------------
(* App::new and the state of the file system when the program starts *)

Init ==
    /\ pc = "start"
    /\ running = TRUE
    /\ button_pressed = FALSE
    /\ seeds = <<>>
    /\ last_check = None
    /\ last_modified = None
    /\ keys_file \in InitialFiles
    /\ rendered = <<>>
    /\ last = Did("new", "na", "na", "na")
    /\ generated = <<>>
    /\ pristine = (keys_file.content = <<>>)
    /\ ever_recorded = RecordedSeeds(keys_file)
    /\ refresh_reads = 0
    /\ faults = 0
    /\ peer = PeerOff

----------------------------------------------------------------------------
(* App::run *)

\* how a load ended: `good` on success, "IoError" when the file could not be
\* opened or read, "LoadError" when a line did not decode to a seed (InvalidData)
load_outcome(res, good) ==
    IF res.ok THEN good ELSE IF res.err = "Io" THEN "IoError" ELSE "LoadError"

\* a startup that reports a failed load and enters the loop all the same
StartupLenient ==
    /\ pc = "start"
    /\ \E io_ok \in BOOLEAN :
        LET res == load_wallets_from_file(keys_file, io_ok)
        IN  /\ seeds' = load_seeds(seeds, res)
            /\ pc' = "check"
            /\ last' = Did("startup", load_outcome(res, "Loaded"), "na", "na")
    /\ running' = TRUE
    /\ UNCHANGED <<peer, button_pressed, last_check, last_modified, keys_file, rendered,
                   generated, pristine, ever_recorded, refresh_reads, faults>>

\* self.running = true; self.load_seeds()?
Startup ==
    /\ pc = "start"
    /\ \E io_ok \in BOOLEAN :
        LET res == load_wallets_from_file(keys_file, io_ok)
        IN  /\ seeds' = load_seeds(seeds, res)
            /\ pc' = IF res.ok THEN "check" ELSE "failed"
            /\ last' = Did("startup", load_outcome(res, "Loaded"), "na", "na")
    /\ running' = TRUE
    /\ UNCHANGED <<peer, button_pressed, last_check, last_modified, keys_file, rendered,
                   generated, pristine, ever_recorded, refresh_reads, faults>>

\* a check_for_updates that records the time of the attempt only when it went well
check_for_updates_unmarked(lc, lm, cur, file, stat_ok, io_ok) ==
    IF ~is_due(lc)
    THEN [last_check |-> lc, last_modified |-> lm, seeds |-> cur, result |-> "Skipped"]
    ELSE IF ~file.exists
    THEN [last_check |-> lc, last_modified |-> lm, seeds |-> cur, result |-> "Missing"]
    ELSE IF ~stat_ok
    THEN [last_check |-> lc, last_modified |-> lm, seeds |-> cur, result |-> "StatError"]
    ELSE IF needs_reload(lm, file.modified)
    THEN LET res == load_wallets_from_file(file, io_ok)
         IN  [last_check |-> IF res.ok THEN Some(0) ELSE lc,
              last_modified |-> Some(file.modified),
              seeds |-> load_seeds(cur, res),
              result |-> load_outcome(res, "Changed")]
    ELSE [last_check |-> Some(0), last_modified |-> lm, seeds |-> cur, result |-> "Unchanged"]

\* a check_for_updates that forgets the seeds and the watermark when the file is gone
check_for_updates_clearing(lc, lm, cur, file, stat_ok, io_ok) ==
    IF ~is_due(lc)
    THEN [last_check |-> lc, last_modified |-> lm, seeds |-> cur, result |-> "Skipped"]
    ELSE IF ~file.exists
    THEN [last_check |-> Some(0), last_modified |-> None, seeds |-> <<>>, result |-> "Missing"]
    ELSE IF ~stat_ok
    THEN [last_check |-> Some(0), last_modified |-> lm, seeds |-> cur, result |-> "StatError"]
    ELSE IF needs_reload(lm, file.modified)
    THEN LET res == load_wallets_from_file(file, io_ok)
         IN  [last_check |-> Some(0), last_modified |-> Some(file.modified),
              seeds |-> load_seeds(cur, res),
              result |-> load_outcome(res, "Changed")]
    ELSE [last_check |-> Some(0), last_modified |-> lm, seeds |-> cur, result |-> "Unchanged"]

\* the outcome of one call of App::check_for_updates:
\* the new last_check, last_modified and seeds, and how the call ended
check_for_updates(lc, lm, cur, file, stat_ok, io_ok) ==
    IF ~is_due(lc)
    THEN [last_check |-> lc, last_modified |-> lm, seeds |-> cur, result |-> "Skipped"]
    ELSE IF ~file.exists
    THEN [last_check |-> Some(0), last_modified |-> lm, seeds |-> cur, result |-> "Missing"]
    ELSE IF ~stat_ok
    THEN [last_check |-> Some(0), last_modified |-> lm, seeds |-> cur, result |-> "StatError"]
    ELSE IF needs_reload(lm, file.modified)
    THEN LET res == load_wallets_from_file(file, io_ok)
         IN  [last_check |-> Some(0), last_modified |-> Some(file.modified),
              seeds |-> load_seeds(cur, res),
              result |-> load_outcome(res, "Changed")]
    ELSE [last_check |-> Some(0), last_modified |-> lm, seeds |-> cur, result |-> "Unchanged"]

\* a loop that reports the error of check_for_updates and goes on
CheckForUpdatesSwallowing ==
    /\ pc = "check"
    /\ running
    /\ \E stat_ok \in BOOLEAN, io_ok \in BOOLEAN :
        LET r == check_for_updates(last_check, last_modified, seeds, keys_file, stat_ok, io_ok)
        IN  /\ last_check' = r.last_check
            /\ last_modified' = r.last_modified
            /\ seeds' = r.seeds
            /\ pc' = "render"
            /\ last' = Did("check_for_updates", r.result, "na", "na")
            /\ refresh_reads' = IF r.result \in {"Changed", "LoadError", "IoError"}
                                THEN Min(refresh_reads + 1, 2)
                                ELSE refresh_reads
    /\ UNCHANGED <<peer, running, button_pressed, keys_file, rendered, generated, pristine,
                   ever_recorded, faults>>

\* self.check_for_updates()? at the top of the loop body
CheckForUpdates ==
    /\ pc = "check"
    /\ running
    /\ \E stat_ok \in BOOLEAN, io_ok \in BOOLEAN :
        LET r == check_for_updates(last_check, last_modified, seeds, keys_file, stat_ok, io_ok)
        IN  /\ last_check' = r.last_check
            /\ last_modified' = r.last_modified
            /\ seeds' = r.seeds
            /\ pc' = IF r.result \in {"LoadError", "IoError"} THEN "failed" ELSE "render"
            /\ last' = Did("check_for_updates", r.result, "na", "na")
            /\ refresh_reads' = IF r.result \in {"Changed", "LoadError", "IoError"}
                                THEN Min(refresh_reads + 1, 2)
                                ELSE refresh_reads
    /\ UNCHANGED <<peer, running, button_pressed, keys_file, rendered, generated, pristine,
                   ever_recorded, faults>>

\* App::render: one "Wallet N: address" line per seed
render(cur) == [i \in 1..Len(cur) |-> [index |-> i, address |-> derive(cur[i])]]

\* terminal.draw(|frame| self.render(frame))?
Render ==
    /\ pc = "render"
    /\ rendered' = render(seeds)
    /\ pc' = "poll"
    /\ last' = Did("render", "na", "na", "na")
    /\ UNCHANGED <<peer, running, button_pressed, seeds, last_check, last_modified, keys_file,
                   generated, pristine, ever_recorded, refresh_reads, faults>>

\* terminal.draw or event::poll / event::read returns Err
TerminalError ==
    /\ pc \in {"render", "poll"}
    /\ pc' = "failed"
    /\ last' = Did("terminal_error", "na", "na", "na")
    /\ UNCHANGED <<peer, running, button_pressed, seeds, last_check, last_modified, keys_file,
                   rendered, generated, pristine, ever_recorded, refresh_reads, faults>>

\* event::poll(100 ms) returns false: no event
PollTimeout ==
    /\ pc = "poll"
    /\ last_check' = Advance(last_check, POLL_TIMEOUT_MS)
    /\ pc' = "check"
    /\ last' = Did("poll_timeout", "na", "na", "na")
    /\ UNCHANGED <<peer, running, button_pressed, seeds, last_modified, keys_file, rendered,
                   generated, pristine, ever_recorded, refresh_reads, faults>>

\* delay after which event::poll returns true when an event arrives, in ms:
\* any time below the timeout, here half of it
EventDelays == {POLL_TIMEOUT_MS \div 2}

\* a generate request that also pushes the seed when the save succeeded
press_button_eager(cur, lm, file, entropy, fault) ==
    LET seed == generate_random_wallet(entropy)
        saved == save_wallet_to_file(file, seed, fault)
    IN  [button_pressed |-> TRUE,
         seeds |-> IF saved.ok THEN Append(cur, seed) ELSE cur,
         last_modified |-> lm,
         file |-> saved.file, seed |-> seed, ok |-> saved.ok]

\* a generate request that also records the file's new timestamp as the watermark
press_button_stamping(cur, lm, file, entropy, fault) ==
    LET seed == generate_random_wallet(entropy)
        saved == save_wallet_to_file(file, seed, fault)
    IN  [button_pressed |-> TRUE, seeds |-> cur,
         last_modified |-> IF saved.ok THEN Some(saved.file.modified) ELSE lm,
         file |-> saved.file, seed |-> seed, ok |-> saved.ok]

\* a generate request that pushes the seed before it knows whether the save succeeded
press_button_ghost(cur, lm, file, entropy, fault) ==
    LET seed == generate_random_wallet(entropy)
        saved == save_wallet_to_file(file, seed, fault)
    IN  [button_pressed |-> TRUE, seeds |-> Append(cur, seed), last_modified |-> lm,
         file |-> saved.file, seed |-> seed, ok |-> saved.ok]

\* a generate request that keeps memory and watermark up to date by itself: it
\* pushes the seed and records the file's new timestamp when the save succeeded
press_button_local(cur, lm, file, entropy, fault) ==
    LET seed == generate_random_wallet(entropy)
        saved == save_wallet_to_file(file, seed, fault)
    IN  [button_pressed |-> TRUE,
         seeds |-> IF saved.ok THEN Append(cur, seed) ELSE cur,
         last_modified |-> IF saved.ok THEN Some(saved.file.modified) ELSE lm,
         file |-> saved.file, seed |-> seed, ok |-> saved.ok]

\* App::press_button: the outcome of one generate request
press_button(cur, lm, file, entropy, fault) ==
    LET seed == generate_random_wallet(entropy)
        saved == save_wallet_to_file(file, seed, fault)
    IN  [button_pressed |-> TRUE, seeds |-> cur, last_modified |-> lm,
         file |-> saved.file, seed |-> seed, ok |-> saved.ok]

\* key 'a': on_key_event -> press_button
KeyGenerate ==
    /\ pc = "poll"
    /\ keys_file.modified < MaxWrites
    /\ \E d \in EventDelays, entropy \in EntropyOutcomes, fault \in SaveFaults :
        LET faulty == ~entropy.ok \/ fault.kind # "none"
            r == press_button(seeds, last_modified, keys_file, entropy, fault)
        IN  /\ faulty => faults < MaxFaults
            /\ faults' = IF faulty THEN faults + 1 ELSE faults
            /\ button_pressed' = r.button_pressed
            /\ seeds' = r.seeds
            /\ last_modified' = r.last_modified
            /\ keys_file' = r.file
            /\ last_check' = Advance(last_check, d)
            /\ generated' = IF r.ok THEN Append(generated, r.seed) ELSE generated
            /\ pristine' = (pristine /\ (r.ok \/ r.file.content = keys_file.content))
            /\ last' = Did("press_button", "na",
                           IF entropy.ok THEN "ok" ELSE "fail",
                           IF r.ok THEN "ok" ELSE "fail")
            /\ FileHistory(r.file)
    /\ pc' = "check"
    /\ UNCHANGED <<peer, running, rendered>>

\* Esc, 'q', Ctrl-C: on_key_event -> quit; the test of while self.running then
\* fails and run returns Ok(())
KeyQuit ==
    /\ pc = "poll"
    /\ running' = FALSE
    /\ pc' = "done"
    /\ last' = Did("quit", "na", "na", "na")
    /\ UNCHANGED <<peer, button_pressed, seeds, last_check, last_modified, keys_file, rendered,
                   generated, pristine, ever_recorded, refresh_reads, faults>>

\* any other key, a mouse event, a resize
OtherEvent ==
    /\ pc = "poll"
    /\ \E d \in EventDelays : last_check' = Advance(last_check, d)
    /\ pc' = "check"
    /\ last' = Did("other_event", "na", "na", "na")
    /\ UNCHANGED <<peer, running, button_pressed, seeds, last_modified, keys_file, rendered,
                   generated, pristine, ever_recorded, refresh_reads, faults>>

----------------------------------------------------------------------------
(* The environment: other processes editing the file while the program runs *)

\* The program reads the file only in check_for_updates, so an edit made anywhere
\* between two refreshes is an edit made while the loop waits in event::poll.
Alive == pc = "poll"

ExternalAppend ==
    /\ Alive
    /\ keys_file.modified < MaxWrites
    /\ \E text \in ExternalTexts :
        LET file2 == [exists |-> TRUE,
                      content |-> (IF keys_file.exists THEN keys_file.content ELSE <<>>) \o text,
                      modified |-> Touch(keys_file)]
        IN  /\ keys_file' = file2
            /\ FileHistory(file2)
    /\ pristine' = FALSE
    /\ last' = Did("external_append", "na", "na", "na")
    /\ UNCHANGED <<peer, pc, running, button_pressed, seeds, last_check, last_modified,
                   rendered, generated, faults>>

ExternalDelete ==
    /\ Alive
    /\ keys_file.exists
    /\ keys_file.modified < MaxWrites
    /\ keys_file' = [exists |-> FALSE, content |-> <<>>, modified |-> Touch(keys_file)]
    /\ FileHistory(keys_file')
    /\ pristine' = FALSE
    /\ last' = Did("external_delete", "na", "na", "na")
    /\ UNCHANGED <<peer, pc, running, button_pressed, seeds, last_check, last_modified,
                   rendered, generated, faults>>

----------------------------------------------------------------------------

Next ==
    \/ Startup
    \/ CheckForUpdates
    \/ Render
    \/ TerminalError
    \/ PollTimeout
    \/ KeyGenerate
    \/ KeyQuit
    \/ OtherEvent
    \/ ExternalAppend
    \/ ExternalDelete

Spec == Init /\ [][Next]_vars

----------------------------------------------------------------------------
(* A second specification for the loader: the program starts on a file made *)
(* of up to MaxFileLines texts of LineMenu and nothing writes the file.      *)

OtherSeed == SeedFrom(1)

\* a record, a second record, an empty line, a whitespace-only line, a record
\* with a trailing space, a record ended by CR LF, a record with a leading
\* space, a record one byte short, a line that is not hex, a record without
\* line end
LineMenu ==
    LET hex == hex_encode(ExternalSeed)
    IN  { hex \o <<"\n">>,
          hex_encode(OtherSeed) \o <<"\n">>,
          <<"\n">>,
          <<" ", "\n">>,
          hex \o <<" ", "\n">>,
          hex \o <<"\r", "\n">>,
          <<" ">> \o hex \o <<"\n">>,
          SubSeq(hex, 1, 2 * SEED_LEN - 2) \o <<"\n">>,
          <<"z", "z", "\n">>,
          hex }

RECURSIVE Concat(_)
Concat(texts) == IF texts = <<>> THEN <<>> ELSE Head(texts) \o Concat(Tail(texts))

LoadFiles ==
    {NoFile} \cup
    { [exists |-> TRUE, content |-> Concat(ts), modified |-> 0] :
        ts \in UNION {[1..n -> LineMenu] : n \in 0..MaxFileLines} }

LoadInit ==
    /\ pc = "start"
    /\ running = TRUE
    /\ button_pressed = FALSE
    /\ seeds = <<>>
    /\ last_check = None
    /\ last_modified = None
    /\ keys_file \in LoadFiles
    /\ rendered = <<>>
    /\ last = Did("new", "na", "na", "na")
    /\ generated = <<>>
    /\ pristine = (keys_file.content = <<>>)
    /\ ever_recorded = RecordedSeeds(keys_file)
    /\ refresh_reads = 0
    /\ faults = 0
    /\ peer = PeerOff

LoadNext ==
    \/ Startup
    \/ CheckForUpdates
    \/ Render
    \/ PollTimeout
    \/ KeyQuit

LoadSpec == LoadInit /\ [][LoadNext]_vars

----------------------------------------------------------------------------
(* A third specification for the codec: the program starts without records,  *)
(* one generate request draws its seed from a wide set of byte strings, and  *)
(* the loop reads the record back.                                           *)

\* byte values at the edges of the two digit ranges of each nibble
ByteSamples == {0, 9, 10, 159, 255}

\* every string of sample bytes, and every byte value at every position of a seed
CodecSeeds ==
    [1..SEED_LEN -> ByteSamples]
    \cup {[SeedFrom(1) EXCEPT ![p] = b] : p \in 1..SEED_LEN, b \in 0..255}

CodecInit ==
    /\ pc = "start"
    /\ running = TRUE
    /\ button_pressed = FALSE
    /\ seeds = <<>>
    /\ last_check = None
    /\ last_modified = None
    /\ keys_file \in {NoFile, [exists |-> TRUE, content |-> <<>>, modified |-> 0]}
    /\ rendered = <<>>
    /\ last = Did("new", "na", "na", "na")
    /\ generated = <<>>
    /\ pristine = TRUE
    /\ ever_recorded = {}
    /\ refresh_reads = 0
    /\ faults = 0
    /\ peer = PeerOff

\* key 'a', once, with a working entropy source and a working save
CodecGenerate ==
    /\ pc = "poll"
    /\ generated = <<>>
    /\ \E d \in EventDelays, bytes \in CodecSeeds :
        LET entropy == [ok |-> TRUE, filled |-> SEED_LEN, bytes |-> bytes]
            fault == [kind |-> "none", written |-> 2 * SEED_LEN + 1]
            r == press_button(seeds, last_modified, keys_file, entropy, fault)
        IN  /\ button_pressed' = r.button_pressed
            /\ seeds' = r.seeds
            /\ last_modified' = r.last_modified
            /\ keys_file' = r.file
            /\ last_check' = Advance(last_check, d)
            /\ generated' = IF r.ok THEN Append(generated, r.seed) ELSE generated
            /\ pristine' = (pristine /\ (r.ok \/ r.file.content = keys_file.content))
            /\ last' = Did("press_button", "na", "ok", IF r.ok THEN "ok" ELSE "fail")
            /\ FileHistory(r.file)
    /\ pc' = "check"
    /\ UNCHANGED <<peer, running, rendered, faults>>

CodecNext ==
    \/ Startup
    \/ CheckForUpdates
    \/ Render
    \/ PollTimeout
    \/ CodecGenerate

CodecSpec == CodecInit /\ [][CodecNext]_vars

----------------------------------------------------------------------------
(* A fourth specification for progress: the loop keeps turning, the file is  *)
(* only appended to and stays decodable, and stat and read calls succeed.    *)

LiveInit == Init /\ Decodable(keys_file)

\* the startup load with working reads
LiveStartup == Startup /\ last'.result # "IoError"

\* check_for_updates with a working stat and working reads
LiveCheck == CheckForUpdates /\ last'.result \notin {"StatError", "IoError"}

\* a generate request that leaves the file decodable
LiveGenerate == KeyGenerate /\ Decodable(keys_file')

\* an external append that leaves the file decodable
LiveAppend == ExternalAppend /\ Decodable(keys_file')

LiveNext ==
    \/ LiveStartup
    \/ LiveCheck
    \/ Render
    \/ PollTimeout
    \/ OtherEvent
    \/ LiveGenerate
    \/ LiveAppend

\* Each statement of the loop body of App::run returns: check_for_updates and
\* terminal.draw do bounded work, and event::poll returns after at most
\* POLL_TIMEOUT_MS when no event arrives.
LiveFairness ==
    /\ WF_vars(Startup)
    /\ WF_vars(CheckForUpdates)
    /\ WF_vars(Render)
    /\ WF_vars(PollTimeout)

LiveSpec == LiveInit /\ [][LiveNext]_vars /\ LiveFairness

----------------------------------------------------------------------------
(* A fifth specification for two instances of the program on one file.  The  *)
(* first instance is the loop above.  The second runs the same operations;   *)
(* its loop position and its rate limit are left out: it may refresh at any  *)
(* time or not at all.  Its save is taken at the grain of its two writes,    *)
(* the digits and the line end, so that a save of the first instance can     *)
(* fall between them.  Entropy and save faults are left to Spec.             *)

TwoInit == Init /\ keys_file.content = <<>>

\* generate requests made so far by both instances
Requests == Len(generated) + Len(peer.generated)

\* the second instance acts between two file accesses of the first
PeerTurn == pc \in {"start", "poll"}

\* key 'a' in the first instance, with a working entropy source and save
TwoGenerate ==
    /\ pc = "poll"
    /\ Requests < MaxWrites
    /\ \E d \in EventDelays, k \in 1..NumSeeds :
        LET entropy == [ok |-> TRUE, filled |-> SEED_LEN, bytes |-> SeedFrom(k)]
            fault == [kind |-> "none", written |-> 2 * SEED_LEN + 1]
            r == press_button(seeds, last_modified, keys_file, entropy, fault)
        IN  /\ button_pressed' = r.button_pressed
            /\ seeds' = r.seeds
            /\ last_modified' = r.last_modified
            /\ keys_file' = r.file
            /\ last_check' = Advance(last_check, d)
            /\ generated' = IF r.ok THEN Append(generated, r.seed) ELSE generated
            /\ pristine' = (pristine /\ (r.ok \/ r.file.content = keys_file.content))
            /\ last' = Did("press_button", "na", "ok", IF r.ok THEN "ok" ELSE "fail")
            /\ FileHistory(r.file)
    /\ pc' = "check"
    /\ UNCHANGED <<peer, running, rendered, faults>>

\* the second instance: self.load_seeds()? of App::run
PeerStartup ==
    /\ PeerTurn
    /\ peer.pc = "off"
    /\ LET res == load_wallets_from_file(keys_file, TRUE)
       IN  peer' = [peer EXCEPT !.pc = IF res.ok THEN "run" ELSE "failed",
                                !.seeds = load_seeds(peer.seeds, res)]
    /\ last' = Did("peer_startup", "na", "na", "na")
    /\ UNCHANGED <<pc, running, button_pressed, seeds, last_check, last_modified,
                   keys_file, rendered, generated, pristine, ever_recorded,
                   refresh_reads, faults>>

\* the second instance: a due call of check_for_updates
PeerRefresh ==
    /\ PeerTurn
    /\ peer.pc = "run"
    /\ ~peer.pending
    /\ LET r == check_for_updates(None, peer.last_modified, peer.seeds, keys_file,
                                  TRUE, TRUE)
       IN  /\ peer' = [peer EXCEPT
                          !.pc = IF r.result \in {"LoadError", "IoError"}
                                 THEN "failed" ELSE "run",
                          !.seeds = r.seeds,
                          !.last_modified = r.last_modified]
           /\ last' = Did("peer_check_for_updates", r.result, "na", "na")
    /\ UNCHANGED <<pc, running, button_pressed, seeds, last_check, last_modified,
                   keys_file, rendered, generated, pristine, ever_recorded,
                   refresh_reads, faults>>

\* the second instance: press_button up to the first write of writeln!, the digits
PeerWriteDigits ==
    /\ PeerTurn
    /\ peer.pc = "run"
    /\ ~peer.pending
    /\ Requests < MaxWrites
    /\ \E k \in 1..NumSeeds :
        LET entropy == [ok |-> TRUE, filled |-> SEED_LEN, bytes |-> SeedFrom(k)]
            digits == [kind |-> "write", written |-> 2 * SEED_LEN]
            r == press_button(peer.seeds, peer.last_modified, keys_file, entropy, digits)
        IN  /\ keys_file' = r.file
            /\ peer' = [peer EXCEPT !.seeds = r.seeds,
                                    !.last_modified = r.last_modified,
                                    !.generated = Append(peer.generated, r.seed),
                                    !.pending = TRUE]
            /\ FileHistory(r.file)
    /\ pristine' = FALSE
    /\ last' = Did("peer_press_button", "na", "ok", "na")
    /\ UNCHANGED <<pc, running, button_pressed, seeds, last_check, last_modified,
                   rendered, generated, faults>>

\* the second instance: the second write of writeln!, the line end
PeerWriteLineEnd ==
    /\ PeerTurn
    /\ peer.pc = "run"
    /\ peer.pending
    /\ keys_file' = [exists |-> TRUE,
                     content |-> (IF keys_file.exists THEN keys_file.content ELSE <<>>)
                                 \o <<"\n">>,
                     modified |-> Touch(keys_file)]
    /\ peer' = [peer EXCEPT !.pending = FALSE]
    /\ FileHistory(keys_file')
    /\ pristine' = FALSE
    /\ last' = Did("peer_press_button", "na", "ok", "ok")
    /\ UNCHANGED <<pc, running, button_pressed, seeds, last_check, last_modified,
                   rendered, generated, faults>>

TwoNext ==
    \/ Startup
    \/ CheckForUpdates
    \/ Render
    \/ PollTimeout
    \/ TwoGenerate
    \/ PeerStartup
    \/ PeerRefresh
    \/ PeerWriteDigits
    \/ PeerWriteLineEnd

TwoSpec == TwoInit /\ [][TwoNext]_vars

----------------------------------------------------------------------------
(* Vocabulary of the properties *)

\* the step just taken was a generate request / one whose save succeeded / failed
GenerateStep == last'.op = "press_button" /\ pc = "poll"
AppendOkStep == GenerateStep /\ last'.append = "ok"
AppendFailedStep == GenerateStep /\ last'.append = "fail"

\* the step just taken was a call of check_for_updates that was due
RefreshStep == last'.op = "check_for_updates" /\ pc = "check" /\ last'.result # "Skipped"

\* the seed appended by the generate request just taken
NewSeed == generated'[Len(generated')]

IsPrefix(s, t) == Len(s) <= Len(t) /\ SubSeq(t, 1, Len(s)) = s

\* a line is blank when it holds nothing but whitespace
IsBlankLine(l) == \A i \in 1..Len(l) : IsWhitespace(l[i])

\* a line is a record when it is exactly 2 * SEED_LEN lowercase hex digits
IsRecordLine(l) == Len(l) = 2 * SEED_LEN /\ \A i \in 1..Len(l) : l[i] \in Range(HexLower)

\* the bytes a record line stands for
RecordSeed(l) ==
    [i \in 1..SEED_LEN |->
        ((CHOOSE k \in 1..16 : HexLower[k] = l[2 * i - 1]) - 1) * 16
        + ((CHOOSE k \in 1..16 : HexLower[k] = l[2 * i]) - 1)]

\* a line without its leading and trailing whitespace
RECURSIVE Trimmed(_)
Trimmed(l) ==
    IF l = <<>> THEN l
    ELSE IF IsWhitespace(l[1]) THEN Trimmed(Tail(l))
    ELSE IF IsWhitespace(l[Len(l)]) THEN Trimmed(SubSeq(l, 1, Len(l) - 1))
    ELSE l

FileLines(file) == IF file.exists THEN lines(file.content) ELSE <<>>

NonBlankLines(file) == SelectSeq(FileLines(file), LAMBDA l : ~IsBlankLine(l))

\* the file with its blank lines removed, every remaining line ended by a line feed
WithoutBlankLines(file) ==
    LET keep == NonBlankLines(file)
    IN  [file EXCEPT !.content = Concat([i \in 1..Len(keep) |-> keep[i] \o <<"\n">>])]

\* the step just taken loaded the file: the startup load, or a refresh that read it
JustLoaded ==
    \/ last.op = "startup" /\ last.result \in {"Loaded", "LoadError"}
    \/ last.op = "check_for_updates" /\ last.result \in {"Changed", "LoadError"}

----------------------------------------------------------------------------
(* C1 *)

----------------------------------------------------------------------------
(* C2 *)

\* the outcome of a due refresh with a working stat and read, taken in the state
\* after the step
NextDueRefresh == check_for_updates(None, last_modified', seeds', keys_file', TRUE, TRUE)

----------------------------------------------------------------------------
(* C3 *)

\* C3: when the load of a refresh fails, the error is propagated out of
\* check_for_updates and the in-memory sequence is the one held before.
C3_FailedRefreshKeepsSeeds ==
    [][(RefreshStep /\ last'.result \in {"LoadError", "IoError"}) =>
          /\ seeds' = seeds
          /\ pc' = "failed"]_vars

\* a refresh failed on a line that follows a valid record, with seeds in memory
C3_Witness ==
    /\ last.op = "check_for_updates"
    /\ last.result = "LoadError"
    /\ seeds # <<>>
    /\ Len(FileLines(keys_file)) >= 2
    /\ IsRecordLine(FileLines(keys_file)[1])

----------------------------------------------------------------------------
(* C4 *)

\* C4, as stated: no failure of a refresh or of a generate request ends the loop.
C4_LoopSurvivesFailures ==
    pc = "failed" => last.op \notin {"check_for_updates", "press_button"}

----------------------------------------------------------------------------
(* C5 *)

\* C5, as stated: a generate request whose entropy source fails appends nothing
\* to the file and leaves the in-memory length unchanged.
C5_EntropyFailureAborts ==
    [][(GenerateStep /\ last'.entropy = "fail") =>
          /\ keys_file' = keys_file
          /\ Len(seeds') = Len(seeds)]_vars

----------------------------------------------------------------------------
(* C6 *)

\* C6: a failed append leaves the in-memory sequence unchanged and the loop
\* running, and every seed in memory or on screen has been a record of the file.
C6_NoGhostEntry ==
    [][ /\ AppendFailedStep => (seeds' = seeds /\ pc' = "check" /\ running')
        /\ Range(seeds') \subseteq ever_recorded'
        /\ \A i \in 1..Len(rendered') : rendered'[i].address.ss58_of \in ever_recorded'
      ]_vars

\* a failed append, with seeds in memory and the loop still running
C6_Witness ==
    /\ last.op = "press_button"
    /\ last.append = "fail"
    /\ pc = "check"
    /\ running
    /\ seeds # <<>>

----------------------------------------------------------------------------
(* C7 *)

\* C7: between two modifications of the file, refreshes read it at most once; a
\* due refresh that finds the timestamp equal to the watermark reports Unchanged
\* (or a stat error) and changes neither the in-memory sequence nor the watermark.
C7_WatermarkStability ==
    [][ /\ refresh_reads' <= 1
        /\ (RefreshStep /\ keys_file.exists /\ last_modified = Some(keys_file.modified)) =>
              /\ last'.result \in {"Unchanged", "StatError"}
              /\ seeds' = seeds
              /\ last_modified' = last_modified
      ]_vars

\* a second refresh after one that read the file, with no modification in between
C7_Witness ==
    /\ last.op = "check_for_updates"
    /\ last.result = "Unchanged"
    /\ refresh_reads = 1
    /\ seeds # <<>>

----------------------------------------------------------------------------
(* C8 *)

----------------------------------------------------------------------------
(* C9 and C10, under LoadSpec *)

\* every non-blank line of the file is a record once trimmed
TrimmedRecordsOnly(file) ==
    \A i \in 1..Len(NonBlankLines(file)) : IsRecordLine(Trimmed(NonBlankLines(file)[i]))

\* every non-blank line of the file is a record
RecordsAndBlanksOnly(file) ==
    \A i \in 1..Len(NonBlankLines(file)) : IsRecordLine(NonBlankLines(file)[i])

\* C9, as stated: a record with leading or trailing whitespace decodes to the seed
\* of the record without it, and a load of a file of such lines succeeds.
C9_DecodeTrims ==
    (JustLoaded /\ TrimmedRecordsOnly(keys_file)) =>
        /\ last.result \in {"Loaded", "Changed"}
        /\ seeds = [i \in 1..Len(NonBlankLines(keys_file)) |->
                      RecordSeed(Trimmed(NonBlankLines(keys_file)[i]))]

\* C10: a load of a file of records and blank lines returns what a load of the
\* file without the blank lines returns, and the program adopts it.
C10_LoadSkipsBlankLines ==
    (JustLoaded /\ RecordsAndBlanksOnly(keys_file)) =>
        LET res == load_wallets_from_file(keys_file, TRUE)
            stripped == load_wallets_from_file(WithoutBlankLines(keys_file), TRUE)
        IN  /\ res = stripped
            /\ res.ok
            /\ Len(res.seeds) = Len(NonBlankLines(keys_file))
            /\ last.result \in {"Loaded", "Changed"} => seeds = stripped.seeds

\* two records with a whitespace-only line between them, loaded
C10_Witness ==
    /\ JustLoaded
    /\ RecordsAndBlanksOnly(keys_file)
    /\ Len(FileLines(keys_file)) = 3
    /\ IsBlankLine(FileLines(keys_file)[2])
    /\ FileLines(keys_file)[2] # <<>>
    /\ Len(seeds) = 2
    /\ seeds[1] # seeds[2]

----------------------------------------------------------------------------
(* C11 *)

\* C11, as stated: after a successful append of a seed the non-blank lines of
\* the file are the previous non-blank lines followed by one new line, the
\* 2 * SEED_LEN lowercase hex digits of the seed; the append adds no blank line;
\* and a file whose non-blank lines all decoded before the append still has
\* only decodable non-blank lines after it.
C11_AppendAddsOneRecord ==
    [][AppendOkStep =>
          /\ IsRecordLine(hex_encode(NewSeed))
          /\ NonBlankLines(keys_file') =
                 Append(NonBlankLines(keys_file), hex_encode(NewSeed))
          /\ Len(FileLines(keys_file')) = Len(FileLines(keys_file)) + 1
          /\ Decodable(keys_file) => Decodable(keys_file')]_vars

----------------------------------------------------------------------------
(* C12 *)

\* the step just taken was the startup load of App::run
StartupStep == pc = "start" /\ last'.op = "startup"

\* C12: the startup load fails exactly when the file exists and cannot be read
\* or holds a line that does not decode; a failed startup load ends run with
\* the error, with nothing loaded, drawn or generated; and nothing runs after
\* run has ended with an error: no step leaves that state.
C12_StartupFailureIsFatal ==
    [][ /\ StartupStep =>
              /\ ~Decodable(keys_file) => last'.result \in {"LoadError", "IoError"}
              /\ last'.result = "LoadError" => ~Decodable(keys_file)
              /\ last'.result = "IoError" => keys_file.exists
        /\ (StartupStep /\ last'.result \in {"LoadError", "IoError"}) =>
              /\ pc' = "failed"
              /\ seeds' = <<>> /\ rendered' = <<>> /\ generated' = <<>>
              /\ ~button_pressed' /\ last_check' = None /\ last_modified' = None
              /\ keys_file' = keys_file
        /\ pc # "failed"
      ]_vars

\* run has ended at the startup load, on a file with a corrupt record
C12_Witness ==
    /\ pc = "failed"
    /\ last.op = "startup"
    /\ last.result = "LoadError"
    /\ keys_file.exists
    /\ ~Decodable(keys_file)

----------------------------------------------------------------------------
(* C13 *)

\* C13: a load on a path where no file exists returns the empty sequence and
\* no error, whether or not files can be read; the startup load on a missing
\* file succeeds and enters the loop with an empty in-memory sequence and no
\* watermark, and creates no file.
C13_MissingFileLoadsEmpty ==
    [][(StartupStep /\ ~keys_file.exists) =>
          /\ \A io_ok \in BOOLEAN :
                load_wallets_from_file(keys_file, io_ok) =
                    [ok |-> TRUE, seeds |-> <<>>, err |-> "none"]
          /\ last'.result = "Loaded"
          /\ pc' = "check"
          /\ seeds' = <<>>
          /\ last_modified' = None
          /\ ~keys_file'.exists]_vars

\* the program has started without a keys file
C13_Witness ==
    /\ last.op = "startup"
    /\ last.result = "Loaded"
    /\ pc = "check"
    /\ ~keys_file.exists
    /\ seeds = <<>>
    /\ last_modified = None

----------------------------------------------------------------------------
(* C14 *)

\* C14: for the seed of every successful generate request, the line that the
\* save encodes is exactly 2 * SEED_LEN lowercase hex digits, without any
\* whitespace, decoding that line yields the seed, the save adds that line and
\* a line feed to the file, and a refresh that reads back a file holding only
\* such lines puts the generated seeds in memory.
C14_CodecRoundTrip ==
    [][ /\ AppendOkStep =>
              LET line == hex_encode(NewSeed)
                  d == hex_decode(line)
              IN  /\ Len(line) = 2 * SEED_LEN
                  /\ \A i \in 1..Len(line) :
                        line[i] \in Range(HexLower) /\ ~IsWhitespace(line[i])
                  /\ d.ok
                  /\ d.bytes = NewSeed
                  /\ keys_file'.content = keys_file.content \o line \o <<"\n">>
        /\ (RefreshStep /\ last'.result = "Changed" /\ pristine') => seeds' = generated'
      ]_vars

\* a seed whose bytes need digits and letters in both nibbles has been
\* generated, saved and read back
C14_Witness ==
    /\ last.op = "check_for_updates"
    /\ last.result = "Changed"
    /\ Len(generated) = 1
    /\ seeds = generated
    /\ seeds[1][1] = 159
    /\ seeds[1][2] = 10
    /\ NonBlankLines(keys_file) = <<hex_encode(seeds[1])>>

----------------------------------------------------------------------------
(* C15 *)

\* the seeds that the non-blank lines of the file decode to, in line order
DecodedLines(file) ==
    LET ls == NonBlankLines(file)
    IN  [i \in 1..Len(ls) |-> hex_decode(ls[i]).bytes]

\* C15: a due refresh that finds the file present, with no watermark recorded
\* or with a timestamp that differs from the watermark, and that neither fails
\* to stat the file nor fails to load it, ends as a reload; after a reload the
\* watermark is the file's timestamp and the in-memory sequence is the
\* sequence of seeds decoded from the file's non-blank lines, in line order,
\* whatever the sequence was before.
C15_ReloadReplaces ==
    [][ /\ ( /\ RefreshStep
             /\ keys_file.exists
             /\ (~last_modified.some \/ last_modified.val # keys_file.modified)
             /\ last'.result \notin {"StatError", "LoadError", "IoError"} )
           => last'.result = "Changed"
        /\ (RefreshStep /\ last'.result = "Changed") =>
              /\ keys_file.exists
              /\ ~last_modified.some \/ last_modified.val # keys_file.modified
              /\ last_modified' = Some(keys_file.modified)
              /\ seeds' = DecodedLines(keys_file)
              /\ \A i \in 1..Len(seeds') : Len(seeds'[i]) = SEED_LEN
      ]_vars

\* a reload has replaced a non-empty sequence by one that does not extend it
C15_Witness ==
    /\ last.op = "check_for_updates"
    /\ last.result = "Changed"
    /\ last_modified = Some(keys_file.modified)
    /\ seeds = DecodedLines(keys_file)
    /\ seeds # <<>>
    /\ rendered # <<>>
    /\ rendered[1].address # derive(seeds[1])

----------------------------------------------------------------------------
(* C16 *)

\* C16: a due refresh that finds no file at the path ends without error and
\* without reading anything, leaves the in-memory sequence and the watermark
\* exactly as they were, and the loop goes on to draw the retained sequence.
C16_MissingFileIsNoOp ==
    [][(RefreshStep /\ ~keys_file.exists) =>
          /\ last'.result = "Missing"
          /\ seeds' = seeds
          /\ last_modified' = last_modified
          /\ refresh_reads' = refresh_reads
          /\ keys_file' = keys_file
          /\ pc' = "render"]_vars

\* the file was deleted after it had been loaded: the refresh has kept the
\* loaded sequence and its watermark
C16_Witness ==
    /\ last.op = "check_for_updates"
    /\ last.result = "Missing"
    /\ ~keys_file.exists
    /\ seeds # <<>>
    /\ last_modified.some

----------------------------------------------------------------------------
(* C17 *)

\* the step just taken was the call of check_for_updates of one loop iteration
CheckStep == last'.op = "check_for_updates" /\ pc = "check"

\* C17: a call of check_for_updates made less than CHECK_INTERVAL_MS after the
\* last attempt is skipped: it reads nothing and changes neither the
\* in-memory sequence, the watermark nor the time of the last attempt.  Every
\* other call is an attempt, made with no earlier attempt or at least
\* CHECK_INTERVAL_MS after it, and it records its own time as the time of
\* the last attempt however it ends: reload, no change, missing file, failed
\* stat or failed load.
C17_RateLimited ==
    [][CheckStep =>
          IF last_check.some /\ last_check.val < CHECK_INTERVAL_MS
          THEN /\ last'.result = "Skipped"
               /\ seeds' = seeds
               /\ last_modified' = last_modified
               /\ last_check' = last_check
               /\ refresh_reads' = refresh_reads
               /\ keys_file' = keys_file
               /\ pc' = "render"
          ELSE /\ last'.result \in {"Changed", "Unchanged", "Missing", "StatError",
                                    "LoadError", "IoError"}
               /\ last_check' = Some(0)
      ]_vars

\* a call that came too early after the last attempt has been skipped although
\* a file is present and no watermark is recorded
C17_Witness ==
    /\ last.op = "check_for_updates"
    /\ last.result = "Skipped"
    /\ last_check.some
    /\ last_check.val < CHECK_INTERVAL_MS
    /\ keys_file.exists
    /\ ~last_modified.some
    /\ pc = "render"

----------------------------------------------------------------------------
(* C18 *)

\* the file holds at least n records and memory holds the first n of them
HasRecords(n) == Len(DecodedLines(keys_file)) >= n
LoadedRecords(n) ==
    /\ Len(seeds) >= n
    /\ SubSeq(seeds, 1, n) = SubSeq(DecodedLines(keys_file), 1, n)

\* C18: while the loop keeps turning over a file that is only appended to and
\* stays decodable, every record in the file, whoever appended it, is
\* eventually in the in-memory sequence at its place in line order; and from
\* some point on, when the writes have stopped, the loop is running with an
\* in-memory sequence equal to the seeds decoded from the file, for good.
C18_EventuallyLoaded ==
    /\ \A n \in 1..(MaxWrites + 1) : HasRecords(n) ~> LoadedRecords(n)
    /\ <>[](running /\ pc \in {"check", "render", "poll"}
            /\ seeds = DecodedLines(keys_file))

\* a record appended by another process and a record appended by a generate
\* request have both reached memory through refreshes
C18_Witness ==
    /\ last.op = "check_for_updates"
    /\ last.result = "Changed"
    /\ generated # <<>>
    /\ Len(seeds) = 2
    /\ ExternalSeed \in Range(seeds)
    /\ generated[1] \in Range(seeds)
    /\ seeds = DecodedLines(keys_file)
    /\ keys_file.modified = 2

----------------------------------------------------------------------------
(* C19 *)

\* c is an interleaving of a and b: it holds every element of a and of b, each
\* once per occurrence, in the order of a and in the order of b
RECURSIVE IsMerge(_, _, _)
IsMerge(a, b, c) ==
    IF c = <<>> THEN a = <<>> /\ b = <<>>
    ELSE \/ a # <<>> /\ Head(a) = Head(c) /\ IsMerge(Tail(a), b, Tail(c))
         \/ b # <<>> /\ Head(b) = Head(c) /\ IsMerge(a, Tail(b), Tail(c))

\* both instances are running, no save is under way, and the last refresh of
\* each has observed the file's current timestamp and loaded the file
BothRefreshed ==
    /\ pc \in {"check", "render", "poll"}
    /\ peer.pc = "run"
    /\ ~peer.pending
    /\ keys_file.exists
    /\ last_modified = Some(keys_file.modified)
    /\ peer.last_modified = Some(keys_file.modified)

\* C19: with two instances appending to one file that started without records,
\* whenever both have completed a successful refresh that observed the file's
\* current timestamp, both in-memory sequences are the sequence of seeds
\* decoded from the file, and that sequence is an interleaving of the seeds
\* the two instances have appended: each of them once per append.
C19_BothConverge ==
    BothRefreshed =>
        /\ seeds = DecodedLines(keys_file)
        /\ peer.seeds = DecodedLines(keys_file)
        /\ IsMerge(generated, peer.generated, seeds)

\* both instances have appended, each has refreshed after the last append, and
\* each holds the other's seed
C19_Witness ==
    /\ BothRefreshed
    /\ Len(generated) = 1
    /\ Len(peer.generated) = 1
    /\ Len(seeds) = 2
    /\ peer.seeds = seeds
    /\ seeds[1] = peer.generated[1]
    /\ seeds[2] = generated[1]

----------------------------------------------------------------------------
(* C20 *)

\* the loop of App::run has been entered and has not ended
LoopRunning == running /\ pc \in {"check", "render", "poll"}

\* C20: while the loop is running, a recorded watermark that equals the
\* timestamp of the file at the path means that the file is decodable and
\* that the in-memory sequence is the sequence of seeds decoded from its
\* non-blank lines.
C20_WatermarkMeansLoaded ==
    ( /\ LoopRunning
      /\ keys_file.exists
      /\ last_modified = Some(keys_file.modified) )
    => /\ Decodable(keys_file)
       /\ seeds = DecodedLines(keys_file)

\* the watermark matches a file that holds a record of another process and a
\* record of this one, after both reached memory
C20_Witness ==
    /\ LoopRunning
    /\ keys_file.exists
    /\ last_modified = Some(keys_file.modified)
    /\ generated # <<>>
    /\ ExternalSeed \in Range(seeds)
    /\ generated[1] \in Range(seeds)
    /\ last.op = "other_event"

====
